---- MODULE Spec2Model ----
(***************************************************************************)
(* Keyword-based identification of Alcohol Use Disorder notes              *)
(* (Population_identified_keywords.py): the sentence classifier, the note  *)
(* classifier, the per-file processor with its checkpoint-by-existence,    *)
(* the sequential driver loop, the summary and the merge.                  *)
(*                                                                         *)
(* Text is a sequence of tokens.  A token is a word (a maximal-run         *)
(* candidate of letters), a blank or a sentence terminator; the string a   *)
(* text stands for is the concatenation of its tokens.  Two adjacent word  *)
(* tokens therefore form ONE longer word, which is how \b is honoured.     *)
(***************************************************************************)
EXTENDS Integers, Sequences, FiniteSets, TLC

\* ------------------------------------------------------------------ bounds
MaxTokens == 4

\* ------------------------------------------------------------ vocabulary
WordTokens == {"ETOH", "alcoholism", "heavy", "drinking", "Denies", "mother", "consent"}

Blank == " "

Vocabulary == WordTokens \cup {Blank, ".", "\n"}

\* A missing REPORT_TEXT cell (None / NaN in the data frame).
NaN == <<"<NaN>">>

Texts == UNION {[1..n -> Vocabulary] : n \in 0..MaxTokens}

\* re.IGNORECASE: both sides are compared case-folded.
lower(tok) ==
    CASE tok = "ETOH" -> "etoh"
      [] tok = "Denies" -> "denies"
      [] OTHER -> tok

\* ---------------------------------------------------------------- patterns
\* A pattern \b(?:p1|p2|...)\b is the set of its alternatives; an alternative
\* is the sequence of its words, which the regex joins with one blank.
negation_pattern ==
    { <<"no">>, <<"not">>, <<"never">>, <<"denies">>, <<"without">>,
      <<"negative">>, <<"free", "of">>, <<"absent">>, <<"ruled", "out">> }

context_filter_pattern ==
    { <<"if">>, <<"recommend">>, <<"suggest">>, <<"advise">>, <<"should">>,
      <<"limiting">>, <<"avoid">>, <<"consider">>, <<"encourage">>,
      <<"abstain">>, <<"family", "member">>, <<"family", "history">>,
      <<"mother">>, <<"father">>, <<"parent">>, <<"sibling">>, <<"relative">> }

legal_admin_filter_pattern ==
    { <<"authorization">>, <<"release">>, <<"consent">>, <<"information">>,
      <<"disclosure">>, <<"permission">>, <<"record">>, <<"agreement">>,
      <<"form">>, <<"policy">>, <<"audit">> }

\* The (compiled regex, root) pairs read from the keyword table, in table
\* order.  A word can match the regex of two roots, and two rows can carry
\* the same root.
aud_patterns ==
    << [regex |-> {<<"alcoholism">>, <<"alcoholic">>},         root |-> "alcoholism"],
       [regex |-> {<<"etoh">>, <<"alcohol">>, <<"alcoholism">>}, root |-> "alcohol"],
       [regex |-> {<<"heavy", "drinking">>},                   root |-> "drinking"],
       [regex |-> {<<"drinking">>, <<"drinker">>},             root |-> "drinking"] >>

Roots == {aud_patterns[i].root : i \in DOMAIN aud_patterns}

\* The orders in which iterating a Python set of roots can yield them.
SetOrders == {o \in [1..Cardinality(Roots) -> Roots] : {o[i] : i \in DOMAIN o} = Roots}

\* --------------------------------------------------------- regex matching
\* The alternative alt occurs in s starting at token i, between word
\* boundaries.
AltAt(alt, s, i) ==
    LET k == Len(alt)
        last == i + 2 * k - 2
    IN /\ last <= Len(s)
       /\ \A j \in 1..k : lower(s[i + 2 * (j - 1)]) = alt[j]
       /\ \A j \in 1..(k - 1) : s[i + 2 * j - 1] = Blank
       /\ (i = 1 \/ s[i - 1] \notin WordTokens)
       /\ (last = Len(s) \/ s[last + 1] \notin WordTokens)

\* pattern.search(sentence) is not None
search(pattern, s) ==
    \E alt \in pattern : \E i \in 1..Len(s) : AltAt(alt, s, i)

\* --------------------------------------------------- string primitives
RECURSIVE len(_)
\* len(sentence): the number of characters.
len(s) == IF s = <<>> THEN 0 ELSE Len(Head(s)) + len(Tail(s))

Whitespace == {" ", "\t", "\n", "\r"}

RECURSIVE lstrip(_)
lstrip(s) ==
    IF s # <<>> /\ Head(s) \in Whitespace THEN lstrip(Tail(s)) ELSE s

RECURSIVE rstrip(_)
rstrip(s) ==
    IF s # <<>> /\ s[Len(s)] \in Whitespace
    THEN rstrip(SubSeq(s, 1, Len(s) - 1))
    ELSE s

\* sentence.strip()
strip(s) == rstrip(lstrip(s))

Terminators == {".", "!", "?", ";", ":", "\n"}

RECURSIVE SplitFrom(_, _, _, _)
\* The scan of re.split: cur is the piece being collected, inrun says that
\* the previous token was a terminator (a run of them is one boundary).
SplitFrom(s, cur, inrun, acc) ==
    IF s = <<>> THEN Append(acc, cur)
    ELSE IF Head(s) \in Terminators
         THEN IF inrun
              THEN SplitFrom(Tail(s), <<>>, TRUE, acc)
              ELSE SplitFrom(Tail(s), <<>>, TRUE, Append(acc, cur))
         ELSE SplitFrom(Tail(s), Append(cur, Head(s)), FALSE, acc)

\* re.split(r'[.!?;:\n]+', text)
split(text) == SplitFrom(text, <<>>, FALSE, <<>>)

\* list(a_set) under iteration order o.
RECURSIVE ListOf(_, _)
ListOf(S, o) ==
    IF o = <<>> THEN <<>>
    ELSE IF Head(o) \in S THEN <<Head(o)>> \o ListOf(S, Tail(o))
         ELSE ListOf(S, Tail(o))

\* -------------------------------------------------- sentence classifier
RECURSIVE ScanPatterns(_, _, _)
\* for pattern, root in aud_patterns: if pattern.search(sentence): add(root)
ScanPatterns(patterns, sentence, matched_roots) ==
    IF patterns = <<>> THEN matched_roots
    ELSE ScanPatterns(Tail(patterns), sentence,
                      IF search(Head(patterns).regex, sentence)
                      THEN matched_roots \cup {Head(patterns).root}
                      ELSE matched_roots)

\* A variant that scans the keywords first and lets a keyword hit win.
check_sentence_keywords_first(sentence) ==
    LET matched_roots == ScanPatterns(aud_patterns, sentence, {})
    IN IF matched_roots # {} THEN <<matched_roots, TRUE>>
       ELSE <<{}, FALSE>>

check_sentence_for_keywords(sentence) ==
    IF search(negation_pattern, sentence) THEN <<{}, FALSE>>
    ELSE IF search(context_filter_pattern, sentence) THEN <<{}, FALSE>>
    ELSE IF search(legal_admin_filter_pattern, sentence) THEN <<{}, FALSE>>
    ELSE LET matched_roots == ScanPatterns(aud_patterns, sentence, {})
         IN <<matched_roots, Cardinality(matched_roots) > 0>>

\* ------------------------------------------------------ note classifier
MinSentenceLen == 10

\* A variant that skips only the empty fragments.
SkipSentenceEmptyOnly(sentence) == sentence = <<>>

\* if not sentence or len(sentence) < 10: continue
SkipSentence(sentence) == sentence = <<>> \/ len(sentence) < MinSentenceLen

RECURSIVE NoteLoop(_, _, _)
\* The loop over the sentences: <<all_aud_roots, matched_sentences>>.
NoteLoop(sentences, all_aud_roots, matched_sentences) ==
    IF sentences = <<>> THEN <<all_aud_roots, matched_sentences>>
    ELSE LET sentence == strip(Head(sentences))
             v == check_sentence_for_keywords(sentence)
         IN IF SkipSentence(sentence)
            THEN NoteLoop(Tail(sentences), all_aud_roots, matched_sentences)
            ELSE IF v[2] /\ v[1] # {}
                 THEN NoteLoop(Tail(sentences), all_aud_roots \cup v[1],
                               Append(matched_sentences, sentence))
                 ELSE NoteLoop(Tail(sentences), all_aud_roots, matched_sentences)

RECURSIVE NoteLoopExtend(_, _, _)
\* The loop with the roots kept in a list that every valid sentence extends.
NoteLoopExtend(sentences, root_list, o) ==
    IF sentences = <<>> THEN root_list
    ELSE LET sentence == strip(Head(sentences))
             v == check_sentence_for_keywords(sentence)
         IN IF ~SkipSentence(sentence) /\ v[2] /\ v[1] # {}
            THEN NoteLoopExtend(Tail(sentences), root_list \o ListOf(v[1], o), o)
            ELSE NoteLoopExtend(Tail(sentences), root_list, o)

\* A variant that accumulates the roots in a list instead of a set.
process_note_text_list(text) ==
    IF text = NaN \/ text = <<>> THEN { << <<>>, 0, <<>> >> }
    ELSE LET r == NoteLoop(split(text), {}, <<>>)
         IN {<<NoteLoopExtend(split(text), <<>>, o),
               Len(NoteLoopExtend(split(text), <<>>, o)), r[2]>> : o \in SetOrders}

\* The values process_note_text(text, ...) can return, each a tuple
\* <<aud_roots, aud_roots_count, matched_sentences>>: one per order in which
\* list(all_aud_roots) can enumerate the set.
process_note_text(text) ==
    IF text = NaN \/ text = <<>> THEN { << <<>>, 0, <<>> >> }
    ELSE LET r == NoteLoop(split(text), {}, <<>>)
         IN {<<ListOf(r[1], o), Cardinality(r[1]), r[2]>> : o \in SetOrders}

\* ------------------------------------------------------------ the corpus
MaxNotes == 2

\* Sample report texts of the corpus: one with a valid mention (one root),
\* one whose only keyword sits in a negated sentence.
TextMention == <<"heavy", Blank, "drinking">>

TextNegated == <<"Denies", Blank, "alcoholism">>

\* The rows a parquet file can hold.  Nothing makes ENCOUNTER_ID unique: a
\* file may hold the same identifiers twice.
NotePool ==
    { [OMOP_PERSON_ID |-> 1, ENCOUNTER_ID |-> 1, PHYSIOLOGIC_TIME |-> 1, REPORT_TEXT |-> TextMention],
      [OMOP_PERSON_ID |-> 1, ENCOUNTER_ID |-> 2, PHYSIOLOGIC_TIME |-> 2, REPORT_TEXT |-> TextMention],
      [OMOP_PERSON_ID |-> 2, ENCOUNTER_ID |-> 3, PHYSIOLOGIC_TIME |-> 3, REPORT_TEXT |-> TextNegated] }

DataFrames == UNION {[1..n -> NotePool] : n \in 0..MaxNotes}

Dirs == {"A", "B"}

\* The directory layouts under notes_dir, each the sorted list of the
\* <<directory, part file>> paths that glob finds: no file, one file, two
\* part files of one directory, one part file in each of two directories.
Layouts ==
    { <<>>,
      << <<"A", 0>> >>,
      << <<"A", 0>>, <<"A", 1>> >>,
      << <<"A", 0>>, <<"B", 0>> >> }

\* sorted(glob.glob(f'{notes_dir}*/part-*.parquet')) with the content of
\* each file.
Corpora ==
    UNION { { [i \in DOMAIN l |-> [dir |-> l[i][1], part |-> l[i][2], df |-> dfs[i]]]
              : dfs \in [DOMAIN l -> DataFrames] } : l \in Layouts }

\* ------------------------------------------------------------------ files
NoFile == [exists |-> FALSE, rows |-> <<>>]

File(rows) == [exists |-> TRUE, rows |-> rows]

\* str(value): what to_csv writes for a list cell and read_csv reads back.
Repr(value) == <<"str", value>>

\* One row of results as to_csv writes it.
CsvRow(r) ==
    [person_id |-> r.person_id, note_id |-> r.note_id, note_date |-> r.note_date,
     aud_roots |-> Repr(r.aud_roots), aud_roots_count |-> r.aud_roots_count,
     matched_sentences |-> Repr(r.matched_sentences)]

\* ------------------------------------------------- process_single_parquet
\* os.path.basename(os.path.dirname(file_path))
FileName(f) == f.dir

\* The row appended to results for a note classified as c.
ResultRow(row, c) ==
    [person_id |-> row.OMOP_PERSON_ID, note_id |-> row.ENCOUNTER_ID,
     note_date |-> row.PHYSIOLOGIC_TIME, aud_roots |-> c[1],
     aud_roots_count |-> c[2], matched_sentences |-> c[3]]

RECURSIVE ClassifyRows(_)
\* The loop over the rows of the data frame: the values results can have.
ClassifyRows(df) ==
    IF df = <<>> THEN {<<>>}
    ELSE LET rest == ClassifyRows(Tail(df))
         IN UNION { { IF c[2] > 0 THEN <<ResultRow(Head(df), c)>> \o r ELSE r
                      : r \in rest } : c \in process_note_text(Head(df).REPORT_TEXT) }

NoError == "None"

Returned(file_name, skipped, num_matches, num_notes, error) ==
    [file_name |-> file_name, skipped |-> skipped, num_matches |-> num_matches,
     num_notes |-> num_notes, error |-> error]

\* ---------------------------------------------------------------- state
VARIABLES
    report_text, verdict, classification,  \* the classifiers on their own
    parquet_files,          \* the sorted list of part files, with content
    intermediate,           \* results/intermediate_keywords/<dir>_results.csv
    final_output,           \* results/aud_notes_keywords.csv
    existing_results,       \* the artifacts found when the run started
    pc,                     \* where the script stands
    idx,                    \* part files the loop is done with
    results,                \* the results list of the file being saved
    ret,                    \* what process_single_parquet last returned
    processed_count, skipped_count, total_matches, total_notes_processed,
    errors,                 \* the file names that returned an error
    parquet_reads,          \* the part files pd.read_parquet was called on in this run
    merged,                 \* the artifacts the merge read into all_results
    condition_occurrence,   \* r6263_condition_occurrence.csv
    all_visit,              \* r6263_visit_occurrence.csv
    aud_occurrence,         \* the records with an AUD code
    patient_counts,         \* what calculate_visit_counts returned
    filtered_patients,      \* results/aud_patients_ICD_AUD_rule.csv
    icd_pc                  \* where the ICD script stands

tvars == <<report_text, verdict, classification>>

counters == <<processed_count, skipped_count, total_matches, total_notes_processed, errors>>

dvars == <<parquet_files, intermediate, final_output, existing_results, pc, idx,
           results, ret, counters, parquet_reads, merged>>

ivars == <<condition_occurrence, all_visit, aud_occurrence, patient_counts,
           filtered_patients, icd_pc>>

vars == <<tvars, dvars, ivars>>

NoReturn == Returned("", FALSE, 0, 0, NoError)

Existing(fs) == {d \in Dirs : fs[d].exists}

\* The state of a starting run over the artifacts fs.
RunStart(fs) ==
    /\ intermediate = fs
    /\ existing_results = Existing(fs)
    /\ pc = "loop"
    /\ idx = 0
    /\ results = <<>>
    /\ ret = NoReturn
    /\ processed_count = 0
    /\ skipped_count = 0
    /\ total_matches = 0
    /\ total_notes_processed = 0
    /\ errors = <<>>
    /\ parquet_reads = {}
    /\ merged = <<>>

TextIdle ==
    /\ report_text = <<>>
    /\ verdict = <<>>
    /\ classification = <<>>

\* The ICD script is not run.
ICDIdle ==
    /\ condition_occurrence = <<>>
    /\ all_visit = <<>>
    /\ aud_occurrence = <<>>
    /\ patient_counts = <<>>
    /\ filtered_patients = <<>>
    /\ icd_pc = "idle"

Init ==
    /\ TextIdle
    /\ ICDIdle
    /\ parquet_files \in Corpora
    /\ final_output = NoFile
    /\ RunStart([d \in Dirs |-> NoFile])

\* The part file the loop is at.
Current == parquet_files[idx + 1]

InLoop == pc = "loop" /\ idx < Len(parquet_files)

\* A variant that looks for the artifact under a name no save ever uses.
AlreadyProcessedWrongPath(f) == FALSE

\* if os.path.exists(output_file)
AlreadyProcessed(f) == intermediate[FileName(f)].exists

\* The driver loop's body for a returned error.
CountError(file_name) ==
    /\ errors' = Append(errors, file_name)
    /\ UNCHANGED <<processed_count, skipped_count, total_matches, total_notes_processed>>

\* A variant that adds the matches to the notes total as well.
CountProcessedMatchesOnly(num_matches, num_notes) ==
    /\ processed_count' = processed_count + 1
    /\ total_matches' = total_matches + num_matches
    /\ total_notes_processed' = total_notes_processed + num_matches
    /\ UNCHANGED <<skipped_count, errors>>

\* The driver loop's body for a processed file.
CountProcessed(num_matches, num_notes) ==
    /\ processed_count' = processed_count + 1
    /\ total_matches' = total_matches + num_matches
    /\ total_notes_processed' = total_notes_processed + num_notes
    /\ UNCHANGED <<skipped_count, errors>>

\* The artifact exists: SKIPPED without reading the part file.
Skip ==
    /\ InLoop
    /\ AlreadyProcessed(Current)
    /\ ret' = Returned(FileName(Current), TRUE, 0, 0, NoError)
    /\ skipped_count' = skipped_count + 1
    /\ idx' = idx + 1
    /\ UNCHANGED <<processed_count, total_matches, total_notes_processed, errors>>
    /\ UNCHANGED <<ivars, tvars, parquet_files, intermediate, final_output, existing_results,
                   pc, results, parquet_reads, merged>>

\* pd.read_parquet, the loop over the rows or the opening of the output
\* file raises: the except branch returns the error.
Fail ==
    /\ InLoop
    /\ ~AlreadyProcessed(Current)
    /\ parquet_reads' = parquet_reads \cup {idx + 1}
    /\ ret' = Returned(FileName(Current), FALSE, 0, 0, "Error")
    /\ CountError(FileName(Current))
    /\ idx' = idx + 1
    /\ UNCHANGED <<ivars, tvars, parquet_files, intermediate, final_output, existing_results,
                   pc, results, merged>>

\* A variant that saves the empty table of a file without matches.
NoMatchesCheckpointed ==
    /\ InLoop
    /\ ~AlreadyProcessed(Current)
    /\ <<>> \in ClassifyRows(Current.df)
    /\ parquet_reads' = parquet_reads \cup {idx + 1}
    /\ intermediate' = [intermediate EXCEPT ![FileName(Current)] = File(<<>>)]
    /\ ret' = Returned(FileName(Current), FALSE, 0, Len(Current.df), NoError)
    /\ CountProcessed(0, Len(Current.df))
    /\ idx' = idx + 1
    /\ UNCHANGED <<ivars, tvars, parquet_files, final_output, existing_results,
                   pc, results, merged>>

\* The file is read and classified and no note matches: nothing is saved.
NoMatches ==
    /\ InLoop
    /\ ~AlreadyProcessed(Current)
    /\ <<>> \in ClassifyRows(Current.df)
    /\ parquet_reads' = parquet_reads \cup {idx + 1}
    /\ ret' = Returned(FileName(Current), FALSE, 0, Len(Current.df), NoError)
    /\ CountProcessed(0, Len(Current.df))
    /\ idx' = idx + 1
    /\ UNCHANGED <<ivars, tvars, parquet_files, intermediate, final_output, existing_results,
                   pc, results, merged>>

\* The file is read and classified, some note matches, and to_csv opens the
\* output file for writing: the file exists from here on.
BeginSave ==
    /\ InLoop
    /\ ~AlreadyProcessed(Current)
    /\ \E r \in ClassifyRows(Current.df) :
          /\ r # <<>>
          /\ results' = r
    /\ parquet_reads' = parquet_reads \cup {idx + 1}
    /\ intermediate' = [intermediate EXCEPT ![FileName(Current)] = File(<<>>)]
    /\ pc' = "saving"
    /\ UNCHANGED <<ivars, tvars, parquet_files, final_output, existing_results, idx, ret,
                   counters, merged>>

\* to_csv writes the next row.
SaveRow ==
    /\ pc = "saving"
    /\ LET d == FileName(Current)
           k == Len(intermediate[d].rows)
       IN /\ k < Len(results)
          /\ intermediate' = [intermediate EXCEPT
                                ![d] = File(Append(@.rows, CsvRow(results[k + 1])))]
    /\ UNCHANGED <<ivars, tvars, parquet_files, final_output, existing_results, pc, idx,
                   results, ret, counters, parquet_reads, merged>>

\* to_csv returns: the function returns the counts.
SaveDone ==
    /\ pc = "saving"
    /\ Len(intermediate[FileName(Current)].rows) = Len(results)
    /\ ret' = Returned(FileName(Current), FALSE, Len(results), Len(Current.df), NoError)
    /\ CountProcessed(Len(results), Len(Current.df))
    /\ idx' = idx + 1
    /\ pc' = "loop"
    /\ results' = <<>>
    /\ UNCHANGED <<ivars, tvars, parquet_files, intermediate, final_output, existing_results,
                   parquet_reads, merged>>

\* to_csv raises while writing (a full disk, an unencodable character): the
\* except branch returns the error; what was written stays in the file.
SaveFail ==
    /\ pc = "saving"
    /\ ret' = Returned(FileName(Current), FALSE, 0, 0, "Error")
    /\ CountError(FileName(Current))
    /\ idx' = idx + 1
    /\ pc' = "loop"
    /\ results' = <<>>
    /\ UNCHANGED <<ivars, tvars, parquet_files, intermediate, final_output, existing_results,
                   parquet_reads, merged>>

\* The summary after the loop.  With files newly processed it prints
\* total_matches/total_notes_processed*100.
Summary ==
    /\ pc = "loop"
    /\ idx = Len(parquet_files)
    /\ pc' = IF processed_count > 0 /\ total_notes_processed = 0
             THEN "ZeroDivisionError"
             ELSE "merge"
    /\ UNCHANGED <<ivars, tvars, parquet_files, intermediate, final_output, existing_results,
                   idx, results, ret, counters, parquet_reads, merged>>

\* A variant that keeps only the last frame read.
ConcatLast(frames) ==
    IF frames = <<>> THEN <<>> ELSE frames[Len(frames)]

RECURSIVE Concat(_)
\* pd.concat(all_results, ignore_index=True)
Concat(frames) ==
    IF frames = <<>> THEN <<>> ELSE Head(frames) \o Concat(Tail(frames))

\* The orders in which glob can list the artifacts.
GlobOrders(S) ==
    {o \in [1..Cardinality(S) -> S] : {o[i] : i \in DOMAIN o} = S}

RECURSIVE ReadAll(_, _)
\* The loop over all_intermediate_files: the artifacts of unreadable are
\* those whose pd.read_csv raises, which the loop reports and passes over.
ReadAll(files, unreadable) ==
    IF files = <<>> THEN <<>>
    ELSE IF Head(files) \in unreadable
         THEN ReadAll(Tail(files), unreadable)
         ELSE <<Head(files)>> \o ReadAll(Tail(files), unreadable)

\* A variant that writes the final table even when it has read nothing.
MergeReadingAlwaysWrites(unreadable) ==
    /\ pc = "merge"
    /\ pc' = "done"
    /\ \E all_intermediate_files \in GlobOrders(Existing(intermediate)) :
          LET all_results == ReadAll(all_intermediate_files, unreadable)
              final_df == Concat([i \in DOMAIN all_results |->
                                     intermediate[all_results[i]].rows])
          IN /\ merged' = all_results
             /\ final_output' = File(final_df)
    /\ UNCHANGED <<ivars, tvars, parquet_files, intermediate, existing_results, idx,
                   results, ret, counters, parquet_reads>>

\* The merge of the intermediate results, to the end of the script, when
\* pd.read_csv raises for the artifacts of unreadable and for no other.
MergeReading(unreadable) ==
    /\ pc = "merge"
    /\ pc' = "done"
    /\ \E all_intermediate_files \in GlobOrders(Existing(intermediate)) :
          LET all_results == ReadAll(all_intermediate_files, unreadable)
              final_df == Concat([i \in DOMAIN all_results |->
                                     intermediate[all_results[i]].rows])
          IN /\ merged' = all_results
             /\ final_output' = IF all_results # <<>> THEN File(final_df)
                                ELSE final_output
    /\ UNCHANGED <<ivars, tvars, parquet_files, intermediate, existing_results, idx,
                   results, ret, counters, parquet_reads>>

Merge == \E unreadable \in SUBSET Existing(intermediate) : MergeReading(unreadable)

\* The merge when every artifact can be read.
MergeReadable == MergeReading({})

\* The variables of a process that has not entered the loop yet.
FreshProcess ==
    /\ idx' = 0
    /\ results' = <<>>
    /\ ret' = NoReturn
    /\ processed_count' = 0
    /\ skipped_count' = 0
    /\ total_matches' = 0
    /\ total_notes_processed' = 0
    /\ errors' = <<>>
    /\ parquet_reads' = {}
    /\ merged' = <<>>

\* The process is terminated from outside: its memory is gone, the files
\* stay as they are.
Kill ==
    /\ pc \in {"loop", "saving", "merge"}
    /\ pc' = "killed"
    /\ FreshProcess
    /\ UNCHANGED <<ivars, tvars, parquet_files, intermediate, final_output, existing_results>>

\* The script is run again over the files the earlier runs left.
Rerun ==
    /\ pc \in {"killed", "done", "ZeroDivisionError"}
    /\ existing_results' = Existing(intermediate)
    /\ pc' = "loop"
    /\ FreshProcess
    /\ UNCHANGED <<ivars, tvars, parquet_files, intermediate, final_output>>

Next ==
    \/ Skip
    \/ Fail
    \/ NoMatches
    \/ BeginSave
    \/ SaveRow
    \/ SaveDone
    \/ SaveFail
    \/ Summary
    \/ Merge
    \/ Kill
    \/ Rerun

Spec == Init /\ [][Next]_vars

\* The runs in which nothing raises: the only disturbance is the kill.
NextKill ==
    \/ Skip
    \/ NoMatches
    \/ BeginSave
    \/ SaveRow
    \/ SaveDone
    \/ Summary
    \/ MergeReadable
    \/ Kill
    \/ Rerun

SpecKill == Init /\ [][NextKill]_vars

\* --------------------------------------- the classifiers on their own
TextInit ==
    /\ ICDIdle
    /\ report_text \in Texts \cup {NaN}
    /\ verdict = <<>>
    /\ classification = <<>>
    /\ parquet_files = <<>>
    /\ final_output = NoFile
    /\ RunStart([d \in Dirs |-> NoFile])

\* One call per text: the sentence classifier on the text as one sentence ...
CheckSentence ==
    /\ verdict = <<>>
    /\ classification = <<>>
    /\ report_text # NaN
    /\ verdict' = check_sentence_for_keywords(report_text)
    /\ UNCHANGED <<report_text, classification, dvars, ivars>>

\* ... or the note classifier on the text as a note.
ProcessNote ==
    /\ classification = <<>>
    /\ verdict = <<>>
    /\ classification' \in process_note_text(report_text)
    /\ UNCHANGED <<report_text, verdict, dvars, ivars>>

TextNext == CheckSentence \/ ProcessNote

SpecText == TextInit /\ [][TextNext]_vars

\* ======================================================================
\* Population_identified_ICD.py: the cohort by diagnosis codes and visits
\* ======================================================================
MaxRecords == 3

\* A sample of AUD_ICD after the dots are removed.
AUD_ICD == {"F1020", "30390"}

\* Sample values of condition_source_value with what the query makes of
\* each: the part after ^^, without trailing ^ and without dots.
SourceValues == {"ICD10^^F10.20^", "ICD9^^303.90", "ICD10^^I10^"}

processed_code(condition_source_value) ==
    CASE condition_source_value = "ICD10^^F10.20^" -> "F1020"
      [] condition_source_value = "ICD9^^303.90" -> "30390"
      [] condition_source_value = "ICD10^^I10^" -> "I10"

Persons == {1, 2}

VisitIds == {1, 2}

InpatientVisit == 9201

OutpatientVisit == 9202

EmergencyRoomVisit == 9203

UndefinedVisit == 0

VisitConcepts == {InpatientVisit, OutpatientVisit, EmergencyRoomVisit, UndefinedVisit}

\* r6263_condition_occurrence.csv: up to MaxRecords records.
ConditionTables ==
    UNION {[1..n -> [person_id : Persons, visit_occurrence_id : VisitIds,
                     condition_source_value : SourceValues]] : n \in 0..MaxRecords}

\* r6263_visit_occurrence.csv, one row per visit_occurrence_id.  A record
\* whose visit has no row gets a missing visit_concept_id from the left
\* merge, which the mapping treats as it treats UndefinedVisit.
VisitTables == [VisitIds -> VisitConcepts]

RECURSIVE Select(_, _)
\* The rows of a table whose index is in keep, in their order.
Select(table, keep) ==
    IF table = <<>> THEN <<>>
    ELSE LET n == Len(table)
             front == Select(SubSeq(table, 1, n - 1), keep)
         IN IF n \in keep THEN Append(front, table[n]) ELSE front

\* WHERE processed_code IN (AUD_ICD)
Query(table) ==
    LET keep == {k \in DOMAIN table :
                    processed_code(table[k].condition_source_value) \in AUD_ICD}
        rows == Select(table, keep)
    IN [k \in DOMAIN rows |->
           [person_id |-> rows[k].person_id,
            condition_source_value |-> rows[k].condition_source_value,
            visit_occurrence_id |-> rows[k].visit_occurrence_id]]

\* aud_occurrence.merge(all_visit, on='visit_occurrence_id', how='left')
MergeVisit(rows, visits) ==
    [k \in DOMAIN rows |->
        [person_id |-> rows[k].person_id,
         condition_source_value |-> rows[k].condition_source_value,
         visit_occurrence_id |-> rows[k].visit_occurrence_id,
         visit_concept_id |-> visits[rows[k].visit_occurrence_id]]]

\* The lambda of calculate_visit_counts.
visit_category(x) ==
    IF x \in {InpatientVisit} THEN "inpatient"
    ELSE IF x \in {OutpatientVisit} THEN "outpatient"
    ELSE "None"

RECURSIVE Ascending(_)
\* The group keys in the order groupby puts them.
Ascending(S) ==
    IF S = {} THEN <<>>
    ELSE LET m == CHOOSE x \in S : \A y \in S : x <= y
         IN <<m>> \o Ascending(S \ {m})

\* groupby(['person_id', 'visit_category']).size(): the rows of a group.
GroupSize(rows, person_id, category) ==
    Cardinality({k \in DOMAIN rows :
                    /\ rows[k].person_id = person_id
                    /\ visit_category(rows[k].visit_concept_id) = category})

calculate_visit_counts(rows) ==
    LET kept == Select(rows, {k \in DOMAIN rows :
                                 visit_category(rows[k].visit_concept_id) # "None"})
        keys == Ascending({kept[k].person_id : k \in DOMAIN kept})
    IN [i \in DOMAIN keys |->
           [person_id |-> keys[i],
            inpatient_count |-> GroupSize(kept, keys[i], "inpatient"),
            outpatient_count |-> GroupSize(kept, keys[i], "outpatient")]]

filter_patients_by_visits(counts) ==
    Select(counts, {k \in DOMAIN counts :
                       counts[k].inpatient_count >= 1 \/ counts[k].outpatient_count >= 2})

ICDInit ==
    /\ TextIdle
    /\ parquet_files = <<>>
    /\ final_output = NoFile
    /\ RunStart([d \in Dirs |-> NoFile])
    /\ condition_occurrence \in ConditionTables
    /\ all_visit \in VisitTables
    /\ aud_occurrence = <<>>
    /\ patient_counts = <<>>
    /\ filtered_patients = <<>>
    /\ icd_pc = "query"

\* The DuckDB query for the records with an AUD code.
ExecuteQuery ==
    /\ icd_pc = "query"
    /\ aud_occurrence' = Query(condition_occurrence)
    /\ icd_pc' = "merge"
    /\ UNCHANGED <<tvars, dvars, condition_occurrence, all_visit, patient_counts,
                   filtered_patients>>

\* The merge with the visit table.
MergeVisits ==
    /\ icd_pc = "merge"
    /\ aud_occurrence' = MergeVisit(aud_occurrence, all_visit)
    /\ icd_pc' = "count"
    /\ UNCHANGED <<tvars, dvars, condition_occurrence, all_visit, patient_counts,
                   filtered_patients>>

CalculateVisitCounts ==
    /\ icd_pc = "count"
    /\ patient_counts' = calculate_visit_counts(aud_occurrence)
    /\ icd_pc' = "filter"
    /\ UNCHANGED <<tvars, dvars, condition_occurrence, all_visit, aud_occurrence,
                   filtered_patients>>

\* The filter and the saving of its result.
FilterPatients ==
    /\ icd_pc = "filter"
    /\ filtered_patients' = filter_patients_by_visits(patient_counts)
    /\ icd_pc' = "saved"
    /\ UNCHANGED <<tvars, dvars, condition_occurrence, all_visit, aud_occurrence,
                   patient_counts>>

ICDNext ==
    \/ ExecuteQuery
    \/ MergeVisits
    \/ CalculateVisitCounts
    \/ FilterPatients

SpecICD == ICDInit /\ [][ICDNext]_vars

\* ======================================================================
\* Properties
\* ======================================================================

\* Some suppression pattern matches the sentence.
Suppressed(s) ==
    \/ search(negation_pattern, s)
    \/ search(context_filter_pattern, s)
    \/ search(legal_admin_filter_pattern, s)

\* The roots of the keyword patterns that match the sentence.
MatchingRoots(s) ==
    {aud_patterns[i].root : i \in {j \in DOMAIN aud_patterns : search(aud_patterns[j].regex, s)}}

\* The trimmed fragments of a text.
Fragments(text) ==
    IF text = NaN THEN {} ELSE {strip(split(text)[i]) : i \in DOMAIN split(text)}

\* The fragments that count: long enough, not suppressed, matching a keyword.
ValidFragments(text) ==
    {f \in Fragments(text) : len(f) >= 10 /\ ~Suppressed(f) /\ MatchingRoots(f) # {}}

\* The rows r as the artifact holds them.
CsvRows(r) == [k \in DOMAIN r |-> CsvRow(r[k])]

\* The part files of directory d.
FilesOf(d) == {i \in DOMAIN parquet_files : parquet_files[i].dir = d}

NoArtifacts == [d \in Dirs |-> NoFile]

\* The complete result tables a save into directory d's artifact can aim at.
CompleteTables(d) ==
    {CsvRows(r) : r \in UNION {ClassifyRows(parquet_files[i].df) : i \in FilesOf(d)}}
        \ {<<>>}

\* C1: atomic persistence.  Outside the write itself (so also after a kill
\* or a failure in the middle of it) the canonical path of a partition
\* either does not exist or holds a complete result table.
C1_AtomicPersistence ==
    pc # "saving" =>
        \A d \in Dirs :
            intermediate[d].exists => intermediate[d].rows \in CompleteTables(d)

RECURSIVE CleanRun(_, _)
\* The artifacts one run that nothing interrupts leaves, started over fs.
CleanRun(files, fs) ==
    IF files = <<>> THEN {fs}
    ELSE LET f == Head(files)
         IN IF fs[f.dir].exists THEN CleanRun(Tail(files), fs)
            ELSE UNION { CleanRun(Tail(files),
                                  IF r = <<>> THEN fs
                                  ELSE [fs EXCEPT ![f.dir] = File(CsvRows(r))])
                         : r \in ClassifyRows(f.df) }

\* C2: crash-safe resume.  When a run completes after any number of killed
\* runs, it has read exactly the partitions that had no artifact when it
\* started, and the artifacts are those of one uninterrupted run.
C2_CrashSafeResume ==
    pc = "done" =>
        /\ {parquet_files[i].dir : i \in parquet_reads}
             = {parquet_files[i].dir : i \in DOMAIN parquet_files} \ existing_results
        /\ intermediate \in CleanRun(parquet_files, NoArtifacts)

\* C3: idempotent resumability.  A step of the processor on a part file
\* whose artifact exists returns SKIPPED for it, reads no part file and
\* leaves every artifact as it is.
C3_SkipIsIdempotent ==
    [][(/\ pc = "loop"
        /\ idx < Len(parquet_files)
        /\ intermediate[parquet_files[idx + 1].dir].exists
        /\ pc' # "killed")
       => /\ ret'.skipped
          /\ ret'.file_name = parquet_files[idx + 1].dir
          /\ ret'.error = NoError
          /\ skipped_count' = skipped_count + 1
          /\ parquet_reads' = parquet_reads
          /\ intermediate' = intermediate]_vars

\* C3 witness: in a later run the processor has returned SKIPPED for a
\* partition whose artifact an earlier run wrote, rows and all.
C3_Witness ==
    /\ ret.skipped
    /\ ret.file_name \in existing_results
    /\ intermediate[ret.file_name].rows # <<>>
    /\ parquet_reads = {}

RECURSIVE PartitionRows(_, _)
\* The result rows of all the notes of directory d's part files.
PartitionRows(files, d) ==
    IF files = <<>> THEN {<<>>}
    ELSE IF Head(files).dir = d
         THEN {a \o b : a \in ClassifyRows(Head(files).df),
                        b \in PartitionRows(Tail(files), d)}
         ELSE PartitionRows(Tail(files), d)

\* C4: row-iff-match over the whole partition.  After a run that started
\* with no artifact and met no error, the artifact of every directory holds
\* the rows of exactly the matching notes of all its part files.
C4_RowIffMatch ==
    (pc = "done" /\ existing_results = {} /\ errors = <<>>) =>
        \A d \in Dirs :
            \E t \in PartitionRows(parquet_files, d) :
                intermediate[d].rows = CsvRows(t)

\* C5: partition isolation.  At the end of a run every part file has been
\* attempted, and the merge has taken no row from the artifact of a
\* partition that returned an error.
C5_PartitionIsolation ==
    pc = "done" =>
        /\ idx = Len(parquet_files)
        /\ \A k \in DOMAIN errors : \A j \in DOMAIN merged :
              merged[j] = errors[k] => intermediate[merged[j]].rows = <<>>

RECURSIVE SumRows(_)
\* The rows of the artifacts of the directories S, counted.
SumRows(S) ==
    IF S = {} THEN 0
    ELSE LET d == CHOOSE x \in S : TRUE
         IN Len(intermediate[d].rows) + SumRows(S \ {d})

\* No two rows carry the same (person_id, note_id).
NoDuplicatePairs(rows) ==
    \A i, j \in DOMAIN rows :
        (rows[i].person_id = rows[j].person_id /\ rows[i].note_id = rows[j].note_id)
            => i = j

\* The (person_id, note_id) pairs of rows.
PairsOf(rows) == {<<rows[k].person_id, rows[k].note_id>> : k \in DOMAIN rows}

\* Neither one artifact of S nor two of them hold the same pair twice.
ArtifactsDuplicateFree(S) ==
    /\ \A d \in S : NoDuplicatePairs(intermediate[d].rows)
    /\ \A d, e \in S :
          d # e => PairsOf(intermediate[d].rows) \cap PairsOf(intermediate[e].rows) = {}

\* The merge of this run has written the final table.
MergeProduced == pc = "done" /\ merged # <<>>

\* C6 as stated: whenever the merge produces the final table, its row count
\* is the sum of the row counts of all the artifacts present, and no two of
\* its rows carry the same (person_id, note_id).
C6_MergeCompleteness ==
    MergeProduced =>
        /\ Len(final_output.rows) = SumRows(Existing(intermediate))
        /\ NoDuplicatePairs(final_output.rows)

\* C6 amended: whenever the merge produces the final table, its row count is
\* the sum of the row counts of the artifacts it could read, and it holds
\* the same (person_id, note_id) twice exactly when those artifacts do:
\* nothing is deduplicated.
C6_MergeOfReadable ==
    MergeProduced =>
        LET read == {merged[j] : j \in DOMAIN merged}
        IN /\ final_output.exists
           /\ Len(final_output.rows) = SumRows(read)
           /\ NoDuplicatePairs(final_output.rows) <=> ArtifactsDuplicateFree(read)

\* C6 witness: a final table without duplicates merged from the one artifact
\* that could be read, while another artifact with rows was passed over.
C6_Witness ==
    /\ MergeProduced
    /\ Len(merged) = 1
    /\ final_output.rows # <<>>
    /\ NoDuplicatePairs(final_output.rows)
    /\ \E d \in Existing(intermediate) :
          d # merged[1] /\ intermediate[d].rows # <<>>

\* C7: the run always completes.  No run ends in an uncaught error.
C7_RunCompletes == pc # "ZeroDivisionError"

\* C8: suppression precedence.  Once check_sentence_for_keywords has run on
\* a sentence: if the negation, context or legal/administrative pattern
\* matches, the verdict is (empty set, false) whatever keywords match;
\* otherwise matched_roots is exactly the set of roots of the matching
\* keyword patterns and is_valid says that this set is not empty.
C8_SuppressionPrecedence ==
    verdict # <<>> =>
        IF Suppressed(report_text)
        THEN verdict = <<{}, FALSE>>
        ELSE /\ verdict[1] = MatchingRoots(report_text)
             /\ verdict[2] = (MatchingRoots(report_text) # {})

\* C8 witness: a classified sentence that a suppression pattern and a
\* keyword pattern both match.
C8_Witness ==
    /\ verdict # <<>>
    /\ Suppressed(report_text)
    /\ MatchingRoots(report_text) # {}

\* C9: process_note_text returns aud_roots_count = len(aud_roots), aud_roots
\* holds no root twice even when a root matches in several sentences, and a
\* note whose valid sentences match two distinct roots in total has
\* aud_roots_count = 2.
C9_RootsCount ==
    classification # <<>> =>
        LET aud_roots == classification[1]
            aud_roots_count == classification[2]
            total == UNION {MatchingRoots(f) : f \in ValidFragments(report_text)}
        IN /\ aud_roots_count = Len(aud_roots)
           /\ \A i, j \in DOMAIN aud_roots : aud_roots[i] = aud_roots[j] => i = j
           /\ Cardinality(total) = 2 => aud_roots_count = 2

\* C9 witness: a classified note with two valid sentences that match the
\* same two roots.
C9_Witness ==
    /\ classification # <<>>
    /\ Len(classification[3]) >= 2
    /\ classification[2] = 2
    /\ \A k \in DOMAIN classification[3] :
          Cardinality(MatchingRoots(classification[3][k])) = 2

\* C10: short-sentence exclusion.  Every entry of matched_sentences has at
\* least 10 characters after trimming, and every root of aud_roots comes from
\* a fragment of at least 10 characters that no suppression pattern matches.
C10_ShortSentenceExcluded ==
    classification # <<>> =>
        /\ \A k \in DOMAIN classification[3] :
              /\ len(classification[3][k]) >= 10
              /\ classification[3][k] = strip(classification[3][k])
        /\ \A k \in DOMAIN classification[1] :
              \E f \in ValidFragments(report_text) :
                  classification[1][k] \in MatchingRoots(f)

\* C10 witness: a classified note with a matched sentence, and with a
\* fragment under 10 characters that matches a keyword, is not suppressed,
\* and whose root stays out of aud_roots.
C10_Witness ==
    /\ classification # <<>>
    /\ classification[2] >= 1
    /\ \E f \in Fragments(report_text) :
          /\ f # <<>> /\ len(f) < 10
          /\ ~Suppressed(f)
          /\ \E r \in MatchingRoots(f) :
                \A k \in DOMAIN classification[1] : classification[1][k] # r

\* C11: merge ordering.  The merge starts only after the processor has been
\* invoked for every part file, and every artifact it reads into all_results
\* is a complete result table of its partition, never what an interrupted or
\* failed write of this or an earlier run left.
C11_MergeOrdering ==
    /\ pc = "merge" => idx = Len(parquet_files)
    /\ pc = "done" =>
          \A j \in DOMAIN merged :
              intermediate[merged[j]].rows \in CompleteTables(merged[j])

\* The merge step of a run that finds no artifact in the intermediate
\* directory.
MergeOfNothing ==
    /\ pc = "merge"
    /\ Existing(intermediate) = {}
    /\ pc' # "killed"

MatchingNotes(df) ==
    Cardinality({k \in DOMAIN df : ValidFragments(df[k].REPORT_TEXT) # {}})

\* The loop has come to its end in this run.
LoopEnded == pc \in {"merge", "done", "ZeroDivisionError"}

\* C13: driver accounting.  A run starts with all counts at zero; every
\* part file the loop passes is counted in exactly one of processed, skipped
\* and failed, and adds its matching notes and its notes to the totals when
\* it is newly processed and nothing otherwise; no other step changes the
\* counts.  So at the end of the loop the three counts sum to the number of
\* part files, and the totals are the sums over the files newly processed.
C13_DriverAccounting ==
    /\ [](idx = 0 =>
            /\ processed_count = 0 /\ skipped_count = 0 /\ errors = <<>>
            /\ total_matches = 0 /\ total_notes_processed = 0)
    /\ [][IF idx' = idx + 1
          THEN LET df == parquet_files[idx + 1].df
               IN \/ /\ processed_count' = processed_count + 1
                     /\ total_matches' = total_matches + MatchingNotes(df)
                     /\ total_notes_processed' = total_notes_processed + Len(df)
                     /\ UNCHANGED <<skipped_count, errors>>
                  \/ /\ skipped_count' = skipped_count + 1
                     /\ UNCHANGED <<processed_count, errors, total_matches,
                                    total_notes_processed>>
                  \/ /\ Len(errors') = Len(errors) + 1
                     /\ UNCHANGED <<processed_count, skipped_count, total_matches,
                                    total_notes_processed>>
          ELSE idx' = idx => UNCHANGED counters]_vars
    /\ [](LoopEnded =>
            processed_count + skipped_count + Len(errors) = Len(parquet_files))

\* C13 witness: the loop has ended over two part files, one newly processed
\* with two notes of which one matches, the other skipped or failed.
C13_Witness ==
    /\ LoopEnded
    /\ processed_count = 1
    /\ skipped_count + Len(errors) = 1
    /\ total_matches = 1
    /\ total_notes_processed = 2

\* The records of aud_occurrence of a person whose visit_concept_id is in S.
RecordsOf(person_id, S) ==
    {k \in DOMAIN aud_occurrence :
        /\ aud_occurrence[k].person_id = person_id
        /\ aud_occurrence[k].visit_concept_id \in S}

\* C14: once calculate_visit_counts has returned, the inpatient_count of
\* every patient is the number of their AUD-coded records on visits 9201 or
\* 9203 (emergency room), the outpatient_count the number of those on
\* visits 9202, records on other visits count nowhere, and every patient
\* with a record that counts has a row.
C14_EmergencyRoomIsInpatient ==
    icd_pc \in {"filter", "saved"} =>
        \A p \in Persons :
            LET inpatient == Cardinality(RecordsOf(p, {InpatientVisit, EmergencyRoomVisit}))
                outpatient == Cardinality(RecordsOf(p, {OutpatientVisit}))
            IN /\ \A k \in DOMAIN patient_counts :
                     patient_counts[k].person_id = p =>
                        /\ patient_counts[k].inpatient_count = inpatient
                        /\ patient_counts[k].outpatient_count = outpatient
               /\ inpatient + outpatient > 0 =>
                     \E k \in DOMAIN patient_counts : patient_counts[k].person_id = p

\* The distinct visits of a category on which a person has a record with
\* an AUD code.
VisitsOf(person_id, category) ==
    {condition_occurrence[k].visit_occurrence_id :
        k \in {j \in DOMAIN condition_occurrence :
                  /\ condition_occurrence[j].person_id = person_id
                  /\ processed_code(condition_occurrence[j].condition_source_value)
                        \in AUD_ICD
                  /\ visit_category(all_visit[condition_occurrence[j].visit_occurrence_id])
                        = category}}

\* C15: cohort rule.  A patient is in the saved output exactly when they
\* have at least one inpatient visit or at least two outpatient visits with
\* an AUD code, a visit being one distinct visit_occurrence_id.
C15_CohortRule ==
    icd_pc = "saved" =>
        \A p \in Persons :
            (\E k \in DOMAIN filtered_patients : filtered_patients[k].person_id = p)
                <=> \/ Cardinality(VisitsOf(p, "inpatient")) >= 1
                    \/ Cardinality(VisitsOf(p, "outpatient")) >= 2

\* Directory d has part files and none of their notes matches.
ZeroMatchPartition(d) ==
    /\ FilesOf(d) # {}
    /\ \A i \in FilesOf(d) : MatchingNotes(parquet_files[i].df) = 0

\* The step counts the part file the loop is at as read afresh: not
\* SKIPPED, pd.read_parquet called, no artifact touched, and, unless an
\* error is returned, newly processed with no match.
ReadAfresh ==
    /\ idx' = idx + 1
    /\ ~ret'.skipped
    /\ ret'.file_name = Current.dir
    /\ (idx + 1) \in parquet_reads'
    /\ skipped_count' = skipped_count
    /\ intermediate' = intermediate
    /\ ret'.error = NoError =>
          /\ ret'.num_matches = 0
          /\ processed_count' = processed_count + 1

NextRunStarts == pc \in {"done", "ZeroDivisionError"} /\ pc' = "loop"

\* C17: failure is not sticky.  When the next run starts, no partition that
\* returned an error in the run before is among the partitions the new run
\* finds already done, whatever raised the error: the new run attempts each
\* of them again instead of reporting it skipped.
C17_FailureNotSticky ==
    [][NextRunStarts =>
          \A k \in DOMAIN errors : errors[k] \notin existing_results']_vars

\* C18: after any sequence of runs, every artifact in the intermediate
\* directory has at least one row, and every row of it has
\* aud_roots_count >= 1 and a matched_sentences list that is not empty.
C18_ArtifactsNonEmpty ==
    pc \in {"done", "killed", "ZeroDivisionError"} =>
        \A d \in Existing(intermediate) :
            /\ intermediate[d].rows # <<>>
            /\ \A k \in DOMAIN intermediate[d].rows :
                  /\ intermediate[d].rows[k].aud_roots_count >= 1
                  /\ intermediate[d].rows[k].matched_sentences # Repr(<<>>)

====
